---- MODULE Spec2Model ----
(***************************************************************************)
(* Model of qualtrics/csv_to_advanced_format.py: main() parses the two     *)
(* required options and calls _create_survey, which reads the input CSV    *)
(* with pandas, opens the output file for writing and emits the Qualtrics  *)
(* Advanced Format document, one write() call at a time.                   *)
(*                                                                         *)
(* Text is modelled as a sequence of tokens.  A literal fragment of a      *)
(* write() call is one token; the text of a CSV cell and the text that     *)
(* str() produces for a value are spelled one character per token, so      *)
(* that parsing a cell and formatting the parsed value are computed.       *)
(***************************************************************************)
EXTENDS Integers, Sequences, FiniteSets, TLC

\* Largest number of data rows of the input table.
MaxRows == 2

Columns == {"topic", "opinion", "comment"}

Options == {"--input_csv", "--output_txt"}

\* ------------------------------------------------------------------------
\* Text of CSV cells and of formatted values
\* ------------------------------------------------------------------------

Digits == <<"0", "1", "2", "3", "4", "5", "6", "7", "8", "9">>

DigitSet == {Digits[i] : i \in 1..Len(Digits)}

DigitVal(c) == (CHOOSE i \in 1..Len(Digits) : Digits[i] = c) - 1

\* The cell texts that pandas reads as a missing value (a part of the
\* default na_values of read_csv).
NaTexts == {<<>>, <<"N", "A">>, <<"n", "a", "n">>}

IsNaText(t) == t \in NaTexts

IsIntText(t) == Len(t) > 0 /\ \A i \in 1..Len(t) : t[i] \in DigitSet

\* The integer a digit string denotes (leading zeros are dropped).
RECURSIVE ParseInt(_)
ParseInt(t) ==
  IF Len(t) = 0 THEN 0
  ELSE 10 * ParseInt(SubSeq(t, 1, Len(t) - 1)) + DigitVal(t[Len(t)])

\* str() of a non-negative int.
RECURSIVE IntStr(_)
IntStr(n) ==
  IF n < 10 THEN <<Digits[n + 1]>>
  ELSE IntStr(n \div 10) \o <<Digits[(n % 10) + 1]>>

\* Python values held by a DataFrame cell.
StrV(t) == [ty |-> "str", s |-> t, n |-> 0]
IntV(k) == [ty |-> "int", s |-> <<>>, n |-> k]
FloatV(k) == [ty |-> "float", s |-> <<>>, n |-> k]
NaN == [ty |-> "nan", s |-> <<>>, n |-> 0]

\* The text an f-string inserts for a value: str(value).
PyStr(v) ==
  CASE v.ty = "str" -> v.s
    [] v.ty = "int" -> IntStr(v.n)
    [] v.ty = "float" -> IntStr(v.n) \o <<".", "0">>
    [] v.ty = "nan" -> <<"n", "a", "n">>

\* ------------------------------------------------------------------------
\* pandas: read_csv and iterrows
\* ------------------------------------------------------------------------

\* dtype read_csv infers for column c of the table in file f.
ColDtype(f, c) ==
  LET n == Len(f.rows) IN
  IF n = 0 THEN "object"
  ELSE IF \A i \in 1..n : IsNaText(f.rows[i][c]) \/ IsIntText(f.rows[i][c])
       THEN IF \E i \in 1..n : IsNaText(f.rows[i][c])
            THEN "float64" ELSE "int64"
       ELSE "object"

\* The value read_csv stores for a cell of a column of the given dtype.
ConvertCell(t, dtype) ==
  IF IsNaText(t) THEN NaN
  ELSE CASE dtype = "int64" -> IntV(ParseInt(t))
         [] dtype = "float64" -> FloatV(ParseInt(t))
         [] dtype = "object" -> StrV(t)

\* The DataFrame pd.read_csv(filename, index_col=False) returns for a
\* well-formed table: the header's columns, a dtype per column, the
\* converted cells, and a RangeIndex 0..n-1 (the position of the row).
ReadCsv(f) ==
  [columns |-> f.header,
   dtypes  |-> [c \in f.header |-> ColDtype(f, c)],
   values  |-> [i \in 1..Len(f.rows) |->
                 [c \in f.header |-> ConvertCell(f.rows[i][c], ColDtype(f, c))]]]

\* dtype of DataFrame.values, from which iterrows builds every row Series.
CommonDtype(df) ==
  IF \A c \in df.columns : df.dtypes[c] = "int64" THEN "int64"
  ELSE IF \A c \in df.columns : df.dtypes[c] \in {"int64", "float64"}
       THEN "float64"
       ELSE "object"

Upcast(v, dtype) ==
  IF dtype = "float64" /\ v.ty = "int" THEN FloatV(v.n) ELSE v

\* The Series iterrows yields for the i-th row (1-based position).
RowSeries(df, i) ==
  [c \in df.columns |-> Upcast(df.values[i][c], CommonDtype(df))]

NoFrame == [columns |-> {}, dtypes |-> <<>>, values |-> <<>>]

NoRow == <<>>

\* ------------------------------------------------------------------------
\* Inputs
\* ------------------------------------------------------------------------

\* Data rows the input table is built from, as the CSV spells them.
SampleRows ==
  { [topic |-> <<"T", "a", "x">>, opinion |-> <<"C", "o", "n">>,
     comment |-> <<"o", "k">>],
    [topic |-> <<"0", "0", "7">>, opinion |-> <<>>, comment |-> <<"7">>],
    [topic |-> <<"7">>, opinion |-> <<"1", "0">>, comment |-> <<"7">>] }

\* A CSV header names at least one column.
Headers == (SUBSET Columns) \ {{}}

Restrict(r, h) == [c \in h |-> r[c]]

\* Content of a file that was at the output path before the run.
OldContent == <<"old">>

InputFiles ==
  { [kind |-> "missing", header |-> {}, rows |-> <<>>],
    [kind |-> "empty", header |-> {}, rows |-> <<>>] }
  \cup
  { [kind |-> "table", header |-> h,
     rows |-> [i \in 1..n |-> Restrict(rs[i], h)]] :
      h \in Headers, n \in 0..MaxRows,
      rs \in [1..MaxRows -> SampleRows] }

OutputFiles ==
  { [exists |-> FALSE, content |-> <<>>],
    [exists |-> TRUE, content |-> OldContent] }

\* ------------------------------------------------------------------------
\* State
\* ------------------------------------------------------------------------

VARIABLES
  argv,        \* the options given on the command line
  inputFile,   \* the file at the input path
  outFile,     \* the file at the output path
  outWritable, \* whether the output path can be opened for writing
  pc,          \* the line about to execute, "exit_with" or "exited"
  props,       \* the DataFrame
  iterPos,     \* number of rows iterrows has yielded
  index,       \* loop variable: the index label of the current row
  row,         \* loop variable: the Series of the current row
  separator,   \* the variable separator
  sink,        \* output_file: "unopened", "open" or "closed"
  buffer,      \* text written to output_file and not yet flushed
  openEffect,  \* what open(output, 'w') did: "none", "created", "truncated"
  opened,      \* the paths the process has opened
  exc,         \* the exception being propagated, or "none"
  exitCode     \* the exit status of the process, -1 while it runs

vars == <<argv, inputFile, outFile, outWritable, pc, props, iterPos, index,
          row, separator, sink, buffer, openEffect, opened, exc, exitCode>>

Init ==
  /\ argv \in SUBSET Options
  /\ inputFile \in InputFiles
  /\ outFile \in OutputFiles
  /\ outWritable \in BOOLEAN
  /\ pc = "L53"
  /\ props = NoFrame
  /\ iterPos = 0
  /\ index = 0
  /\ row = NoRow
  /\ separator = <<>>
  /\ sink = "unopened"
  /\ buffer = <<>>
  /\ openEffect = "none"
  /\ opened = {}
  /\ exc = "none"
  /\ exitCode = -1

\* ------------------------------------------------------------------------
\* The literal fragments of the write() calls
\* ------------------------------------------------------------------------

AdvancedFormatLine == "[[AdvancedFormat]]\n\n"
\* The Block directive followed by a single newline.
BlockLine_one_newline == "[[Block:GOVBlock]]\n"

BlockLine == "[[Block:GOVBlock]]\n\n"
QuestionLine == "[[Question:TextEntry:Essay]]\n"
IdOpen == "[[ID:GOV"
IdClose == "]]\n"
TopicOpen == "<h4><strong>Topic:</strong> "
TopicClose == "</h4>\n<br/>\n"
OpinionOpen == "<h3><strong>Opinion:</strong> "
OpinionClose == "</h3>\n<br/>\n"
CommentOpen == "<p><strong>&ldquo;"
CommentClose == "&rdquo;</strong></p>"
BlankLine == "\n\n"

\* ------------------------------------------------------------------------
\* Operations
\* ------------------------------------------------------------------------

\* output_file.write(chunk) inside the with block.  The call either raises
\* (nothing of the chunk is accepted) or appends the chunk to the buffer of
\* the file object, which may flush the buffer to the file.
Write(chunk, next) ==
  \/ /\ exc' = "OSError"
     /\ pc' = "exit_with"
     /\ UNCHANGED <<buffer, outFile>>
  \/ /\ pc' = next
     /\ UNCHANGED exc
     /\ \/ /\ buffer' = buffer \o chunk
           /\ UNCHANGED outFile
        \/ /\ buffer' = <<>>
           /\ outFile' = [outFile EXCEPT !.content = @ \o buffer \o chunk]

\* A handler around the f-string that records the KeyError and goes on.
WriteField_swallow(col, open, close, next) ==
  IF col \in DOMAIN row
  THEN Write(<<open>> \o PyStr(row[col]) \o <<close>>, next)
  ELSE /\ exc' = "KeyError"
       /\ pc' = next
       /\ UNCHANGED <<buffer, outFile>>

\* An f-string that reads row[col]: KeyError when the row has no such label.
WriteField(col, open, close, next) ==
  IF col \in DOMAIN row
  THEN Write(<<open>> \o PyStr(row[col]) \o <<close>>, next)
  ELSE /\ exc' = "KeyError"
       /\ pc' = "exit_with"
       /\ UNCHANGED <<buffer, outFile>>

\* parse_args with the two options declared without required=True.
main_parse_args_optional ==
  /\ pc = "L53"
  /\ pc' = "L55"
  /\ UNCHANGED <<argv, inputFile, outFile, outWritable, props, iterPos,
                 index, row, separator, sink, buffer, openEffect, opened,
                 exc, exitCode>>

\* args = parser.parse_args(): both options are required.
main_parse_args ==
  /\ pc = "L53"
  /\ IF argv = Options
     THEN /\ pc' = "L55"
          /\ UNCHANGED <<exc, exitCode>>
     ELSE /\ pc' = "exited"
          /\ exc' = "SystemExit"
          /\ exitCode' = 2
  /\ UNCHANGED <<argv, inputFile, outFile, outWritable, props, iterPos,
                 index, row, separator, sink, buffer, openEffect, opened>>

\* _create_survey(args.input_csv, args.output_txt)
main_call ==
  /\ pc = "L55"
  /\ pc' = "L25"
  /\ UNCHANGED <<argv, inputFile, outFile, outWritable, props, iterPos,
                 index, row, separator, sink, buffer, openEffect, opened,
                 exc, exitCode>>

\* read_csv run inside the with block: the output is already opened (and
\* truncated) when reading the input fails.
read_csv_after_open ==
  /\ pc = "L25"
  /\ CASE inputFile.kind \in {"missing", "empty"} ->
            /\ opened' = opened \cup {"output_txt", "input_csv"}
            /\ outFile' = [exists |-> TRUE, content |-> <<>>]
            /\ exc' = IF inputFile.kind = "missing"
                      THEN "FileNotFoundError" ELSE "EmptyDataError"
            /\ pc' = "exited"
            /\ exitCode' = 1
            /\ UNCHANGED props
       [] inputFile.kind = "table" ->
            /\ opened' = opened \cup {"input_csv"}
            /\ props' = ReadCsv(inputFile)
            /\ pc' = "L27"
            /\ UNCHANGED <<exc, exitCode, outFile>>
  /\ UNCHANGED <<argv, inputFile, outWritable, iterPos, index, row,
                 separator, sink, buffer, openEffect>>

\* props = pd.read_csv(filename, index_col=False)
read_csv ==
  /\ pc = "L25"
  /\ opened' = opened \cup {"input_csv"}
  /\ CASE inputFile.kind = "missing" ->
            /\ exc' = "FileNotFoundError"
            /\ pc' = "exited"
            /\ exitCode' = 1
            /\ UNCHANGED props
       [] inputFile.kind = "empty" ->
            /\ exc' = "EmptyDataError"
            /\ pc' = "exited"
            /\ exitCode' = 1
            /\ UNCHANGED props
       [] inputFile.kind = "table" ->
            /\ props' = ReadCsv(inputFile)
            /\ pc' = "L27"
            /\ UNCHANGED <<exc, exitCode>>
  /\ UNCHANGED <<argv, inputFile, outFile, outWritable, iterPos, index, row,
                 separator, sink, buffer, openEffect>>

\* open(output, 'a'): an existing file keeps its content.
open_output_append ==
  /\ pc = "L27"
  /\ opened' = opened \cup {"output_txt"}
  /\ IF outWritable
     THEN /\ outFile' = [exists |-> TRUE, content |-> outFile.content]
          /\ openEffect' = IF outFile.exists THEN "truncated" ELSE "created"
          /\ sink' = "open"
          /\ pc' = "L28"
          /\ UNCHANGED <<exc, exitCode>>
     ELSE /\ exc' = "PermissionError"
          /\ pc' = "exited"
          /\ exitCode' = 1
          /\ UNCHANGED <<outFile, openEffect, sink>>
  /\ UNCHANGED <<argv, inputFile, outWritable, props, iterPos, index, row,
                 separator, buffer>>

\* with open(output, 'w') as output_file:
open_output ==
  /\ pc = "L27"
  /\ opened' = opened \cup {"output_txt"}
  /\ IF outWritable
     THEN /\ outFile' = [exists |-> TRUE, content |-> <<>>]
          /\ openEffect' = IF outFile.exists THEN "truncated" ELSE "created"
          /\ sink' = "open"
          /\ pc' = "L28"
          /\ UNCHANGED <<exc, exitCode>>
     ELSE /\ exc' = "PermissionError"
          /\ pc' = "exited"
          /\ exitCode' = 1
          /\ UNCHANGED <<outFile, openEffect, sink>>
  /\ UNCHANGED <<argv, inputFile, outWritable, props, iterPos, index, row,
                 separator, buffer>>

\* output_file.write('[[AdvancedFormat]]\n\n')
write_L28 ==
  /\ pc = "L28"
  /\ Write(<<AdvancedFormatLine>>, "L29")
  /\ UNCHANGED <<argv, inputFile, outWritable, props, iterPos, index, row,
                 separator, sink, openEffect, opened, exitCode>>

\* output_file.write('[[Block:GOVBlock]]\n\n')
write_L29 ==
  /\ pc = "L29"
  /\ Write(<<BlockLine>>, "L30")
  /\ UNCHANGED <<argv, inputFile, outWritable, props, iterPos, index, row,
                 separator, sink, openEffect, opened, exitCode>>

\* separator initialised to the blank line.
assign_L30_blank ==
  /\ pc = "L30"
  /\ separator' = <<BlankLine>>
  /\ pc' = "L31"
  /\ UNCHANGED <<argv, inputFile, outFile, outWritable, props, iterPos,
                 index, row, sink, buffer, openEffect, opened, exc, exitCode>>

\* separator = ''
assign_L30 ==
  /\ pc = "L30"
  /\ separator' = <<>>
  /\ pc' = "L31"
  /\ UNCHANGED <<argv, inputFile, outFile, outWritable, props, iterPos,
                 index, row, sink, buffer, openEffect, opened, exc, exitCode>>

\* An index that counts rows from 1.
iterrows_L31_one_based ==
  /\ pc = "L31"
  /\ IF iterPos < Len(props.values)
     THEN /\ index' = iterPos + 1
          /\ row' = RowSeries(props, iterPos + 1)
          /\ iterPos' = iterPos + 1
          /\ pc' = "L32"
     ELSE /\ pc' = "exit_with"
          /\ UNCHANGED <<index, row, iterPos>>
  /\ UNCHANGED <<argv, inputFile, outFile, outWritable, props, separator,
                 sink, buffer, openEffect, opened, exc, exitCode>>

\* for index, row in props.iterrows():
iterrows_L31 ==
  /\ pc = "L31"
  /\ IF iterPos < Len(props.values)
     THEN /\ index' = iterPos
          /\ row' = RowSeries(props, iterPos + 1)
          /\ iterPos' = iterPos + 1
          /\ pc' = "L32"
     ELSE /\ pc' = "exit_with"
          /\ UNCHANGED <<index, row, iterPos>>
  /\ UNCHANGED <<argv, inputFile, outFile, outWritable, props, separator,
                 sink, buffer, openEffect, opened, exc, exitCode>>

\* output_file.write(separator)
write_L32 ==
  /\ pc = "L32"
  /\ Write(separator, "L33")
  /\ UNCHANGED <<argv, inputFile, outWritable, props, iterPos, index, row,
                 separator, sink, openEffect, opened, exitCode>>

\* output_file.write('[[Question:TextEntry:Essay]]\n')
write_L33 ==
  /\ pc = "L33"
  /\ Write(<<QuestionLine>>, "L34")
  /\ UNCHANGED <<argv, inputFile, outWritable, props, iterPos, index, row,
                 separator, sink, openEffect, opened, exitCode>>

\* output_file.write(f'[[ID:GOV{index}]]\n')
write_L34 ==
  /\ pc = "L34"
  /\ Write(<<IdOpen>> \o IntStr(index) \o <<IdClose>>, "L35")
  /\ UNCHANGED <<argv, inputFile, outWritable, props, iterPos, index, row,
                 separator, sink, openEffect, opened, exitCode>>

\* output_file.write(f'<h4><strong>Topic:</strong> {row["topic"]}</h4>\n<br/>\n')
write_L35 ==
  /\ pc = "L35"
  /\ WriteField("topic", TopicOpen, TopicClose, "L36")
  /\ UNCHANGED <<argv, inputFile, outWritable, props, iterPos, index, row,
                 separator, sink, openEffect, opened, exitCode>>

\* output_file.write(f'<h3><strong>Opinion:</strong> {row["opinion"]}</h3>\n<br/>\n')
write_L36 ==
  /\ pc = "L36"
  /\ WriteField("opinion", OpinionOpen, OpinionClose, "L37")
  /\ UNCHANGED <<argv, inputFile, outWritable, props, iterPos, index, row,
                 separator, sink, openEffect, opened, exitCode>>

\* output_file.write(f'<p><strong>&ldquo;{row["comment"]}&rdquo;</strong></p>')
write_L37 ==
  /\ pc = "L37"
  /\ WriteField("comment", CommentOpen, CommentClose, "L38")
  /\ UNCHANGED <<argv, inputFile, outWritable, props, iterPos, index, row,
                 separator, sink, openEffect, opened, exitCode>>

\* separator = '\n\n'
assign_L38 ==
  /\ pc = "L38"
  /\ separator' = <<BlankLine>>
  /\ pc' = "L31"
  /\ UNCHANGED <<argv, inputFile, outFile, outWritable, props, iterPos,
                 index, row, sink, buffer, openEffect, opened, exc, exitCode>>

\* open() without with: close() is reached on the normal path only.
with_exit_no_finally ==
  /\ pc = "exit_with"
  /\ IF exc = "none"
     THEN /\ outFile' = [outFile EXCEPT !.content = @ \o buffer]
          /\ buffer' = <<>>
          /\ sink' = "closed"
     ELSE UNCHANGED <<outFile, buffer, sink>>
  /\ pc' = "exited"
  /\ exitCode' = IF exc = "none" THEN 0 ELSE 1
  /\ UNCHANGED <<argv, inputFile, outWritable, props, iterPos, index, row,
                 separator, openEffect, opened, exc>>

\* Leaving the with block, at the end of the loop or with an exception
\* pending: output_file.close() flushes the buffer; then _create_survey and
\* main return, or the exception ends the process.
with_exit ==
  /\ pc = "exit_with"
  /\ outFile' = [outFile EXCEPT !.content = @ \o buffer]
  /\ buffer' = <<>>
  /\ sink' = "closed"
  /\ pc' = "exited"
  /\ exitCode' = IF exc = "none" THEN 0 ELSE 1
  /\ UNCHANGED <<argv, inputFile, outWritable, props, iterPos, index, row,
                 separator, openEffect, opened, exc>>

Next ==
  \/ main_parse_args
  \/ main_call
  \/ read_csv
  \/ open_output
  \/ write_L28
  \/ write_L29
  \/ assign_L30
  \/ iterrows_L31
  \/ write_L32
  \/ write_L33
  \/ write_L34
  \/ write_L35
  \/ write_L36
  \/ write_L37
  \/ assign_L38
  \/ with_exit

Spec == Init /\ [][Next]_vars

\* ------------------------------------------------------------------------
\* Vocabulary of the properties
\* ------------------------------------------------------------------------

IsPrefix(a, b) == Len(a) <= Len(b) /\ SubSeq(b, 1, Len(a)) = a

Count(doc, tok) == Cardinality({i \in DOMAIN doc : doc[i] = tok})

\* The process has ended.
Terminated == pc = "exited"

\* _create_survey ran to its end and returned.
Completed == pc = "exited" /\ exc = "none" /\ sink = "closed"

HasRequiredColumns == inputFile.kind = "table" /\ Columns \subseteq inputFile.header

LacksRequiredColumn == inputFile.kind = "table" /\ ~(Columns \subseteq inputFile.header)

NumRows == Len(inputFile.rows)

\* Everything output_file.write() has accepted so far.
Written == outFile.content \o buffer

\* The block the code renders for the k-th row (1-based) of a DataFrame.
RenderedBlock(df, k) ==
  LET r == RowSeries(df, k) IN
    <<QuestionLine, IdOpen>> \o IntStr(k - 1) \o <<IdClose>>
    \o <<TopicOpen>> \o PyStr(r["topic"]) \o <<TopicClose>>
    \o <<OpinionOpen>> \o PyStr(r["opinion"]) \o <<OpinionClose>>
    \o <<CommentOpen>> \o PyStr(r["comment"]) \o <<CommentClose>>

RECURSIVE JoinBlocks(_, _)
JoinBlocks(df, n) ==
  IF n = 0 THEN <<>>
  ELSE IF n = 1 THEN RenderedBlock(df, 1)
  ELSE JoinBlocks(df, n - 1) \o <<BlankLine>> \o RenderedBlock(df, n)

\* The document of a successful run on the table of file f.
FullDocument(f) ==
  <<AdvancedFormatLine, BlockLine>> \o JoinBlocks(ReadCsv(f), Len(f.rows))

\* Characters with a meaning in the markup of the output.
MarkupChars == {"<", ">", "&", "[", "]", ":"}

NoMarkup(t) == \A i \in 1..Len(t) : t[i] \notin MarkupChars

\* Position of the k-th (1-based) occurrence of tok in doc.
NthPos(doc, tok, k) ==
  CHOOSE i \in DOMAIN doc :
    doc[i] = tok /\ Cardinality({j \in 1..i : doc[j] = tok}) = k

\* The k-th block of doc: from its question directive up to the next
\* separator or the end of the document.
BlockOf(doc, k) ==
  LET from == NthPos(doc, QuestionLine, k)
      seps == {i \in DOMAIN doc : i > from /\ doc[i] = BlankLine}
      to   == IF seps = {} THEN Len(doc)
              ELSE (CHOOSE i \in seps : \A j \in seps : i <= j) - 1
  IN SubSeq(doc, from, to)

\* ------------------------------------------------------------------------
\* Properties
\* ------------------------------------------------------------------------

\* C1: a completed run on a table with the required columns and n data rows
\* writes exactly n blocks and max(n-1, 0) separators; the first block
\* follows the preamble directly, every later block follows a separator,
\* every separator stands between the end of a block and the start of the
\* next, and nothing follows the last block.
C1_BlocksAndSeparators ==
  (Completed /\ HasRequiredColumns) =>
    LET doc == outFile.content
        n   == NumRows
    IN /\ Count(doc, QuestionLine) = n
       /\ Count(doc, CommentClose) = n
       /\ Count(doc, BlankLine) = IF n = 0 THEN 0 ELSE n - 1
       /\ n > 0 => (doc[3] = QuestionLine /\ doc[Len(doc)] = CommentClose)
       /\ \A i \in DOMAIN doc :
            /\ doc[i] = BlankLine =>
                 /\ i > 1 /\ doc[i - 1] = CommentClose
                 /\ i < Len(doc) /\ doc[i + 1] = QuestionLine
            /\ (doc[i] = QuestionLine /\ i > 3) => doc[i - 1] = BlankLine
            /\ (doc[i] = CommentClose /\ i < Len(doc)) => doc[i + 1] = BlankLine

C1_Witness ==
  Completed /\ HasRequiredColumns /\ NumRows >= 2
  /\ Count(outFile.content, BlankLine) = NumRows - 1

\* C2 (as claimed): when the header lacks a required column the run ends
\* with a parse error, whatever the number of rows, and the output file is
\* then absent or holds the preamble only.  KeyError is counted as the
\* parse error that names the missing column.
C2_MissingColumnFails ==
  (Terminated /\ argv = Options /\ outWritable /\ LacksRequiredColumn) =>
    /\ exc \in {"KeyError", "EmptyDataError", "ParseError"}
    /\ \/ ~outFile.exists
       \/ sink = "unopened"
       \/ outFile.content = <<"[[AdvancedFormat]]\n\n", "[[Block:GOVBlock]]\n\n">>

\* C3: in the text written so far the k-th identifier line (k counted from
\* 0, in the order written) is [[ID:GOV<k>]] with k in decimal, and a
\* completed run has written one identifier line per data row.
C3_Identifiers ==
  sink # "unopened" =>
    LET doc == Written IN
      /\ \A i \in DOMAIN doc :
           doc[i] = "[[ID:GOV" =>
             LET k == Cardinality({j \in 1..(i - 1) : doc[j] = "[[ID:GOV"})
                 d == IntStr(k)
             IN /\ Len(doc) >= i + Len(d) + 1
                /\ SubSeq(doc, i + 1, i + Len(d)) = d
                /\ doc[i + Len(d) + 1] = "]]\n"
      /\ (Completed /\ HasRequiredColumns) => Count(doc, "[[ID:GOV") = NumRows

C3_Witness ==
  /\ Completed /\ HasRequiredColumns /\ NumRows >= 2
  /\ Count(outFile.content, "[[ID:GOV") = 2
  /\ inputFile.rows[1] # inputFile.rows[2]

\* C4: a completed run on a table with the required columns and no data
\* row leaves the output file holding the preamble and nothing else.
C4_EmptyTable ==
  (Completed /\ HasRequiredColumns /\ NumRows = 0) =>
    outFile = [exists |-> TRUE,
               content |-> <<"[[AdvancedFormat]]\n\n", "[[Block:GOVBlock]]\n\n">>]

C4_Witness ==
  Completed /\ HasRequiredColumns /\ NumRows = 0 /\ Len(outFile.content) = 2

\* C5 (as claimed): after a completed run, the block of every row whose
\* three values hold no markup character is the question directive, the
\* identifier, and the Topic, Opinion and comment templates holding the
\* row's values exactly as the CSV spells them.
C5_ValuesVerbatim ==
  (Completed /\ HasRequiredColumns) =>
    \A k \in 1..NumRows :
      LET r == inputFile.rows[k] IN
        (NoMarkup(r["topic"]) /\ NoMarkup(r["opinion"]) /\ NoMarkup(r["comment"])) =>
          BlockOf(outFile.content, k) =
            <<QuestionLine, IdOpen>> \o IntStr(k - 1) \o <<IdClose>>
            \o <<TopicOpen>> \o r["topic"] \o <<TopicClose>>
            \o <<OpinionOpen>> \o r["opinion"] \o <<OpinionClose>>
            \o <<CommentOpen>> \o r["comment"] \o <<CommentClose>>

\* C6: once the output sink has been opened, every step keeps all accepted
\* text (in the file or in the buffer), and when the process has ended,
\* with or without an exception, the sink is closed and the buffer is
\* empty: all accepted text is in the file.
C6_ClosedAndFlushed ==
  [][ /\ sink = "open" => IsPrefix(Written, Written')
      /\ (Terminated' /\ sink' # "unopened") =>
           (sink' = "closed" /\ buffer' = <<>>) ]_vars

C6_Witness ==
  /\ Terminated /\ exc \in {"KeyError", "OSError"} /\ sink = "closed"
  /\ Len(outFile.content) > 2

\* C7: when a required option is missing, the process never gets past
\* parse_args, it ends with SystemExit and status 2, no path is ever
\* opened and the output file never changes.
C7_UsageError ==
  [][ argv # Options =>
        /\ pc' \in {"L53", "exited"}
        /\ Terminated' => (exc' = "SystemExit" /\ exitCode' = 2)
        /\ opened' = {}
        /\ outFile' = outFile
        /\ sink' = "unopened" ]_vars

C7_Witness ==
  Terminated /\ exitCode = 2 /\ argv = {"--input_csv"} /\ opened = {}

\* C8: after a completed run the output file exists and holds the document
\* of the input table, whether open() created the file or truncated an
\* existing one; the input file is never modified.
C8_Overwrite ==
  [][ /\ Completed' => outFile' = [exists |-> TRUE,
                                   content |-> FullDocument(inputFile)]
      /\ inputFile' = inputFile ]_vars

C8_Witness ==
  Completed /\ openEffect = "truncated" /\ NumRows >= 1

\* C9: the output is opened only after the input has been read and parsed,
\* text is written only while the sink is open, and the file at the output
\* path does not change while the sink is unopened; so a run that fails in
\* read_csv ends with the output never opened and the output file as it was.
C9_ReadBeforeOpen ==
  [][ /\ "output_txt" \in opened' =>
           ("input_csv" \in opened' /\ inputFile.kind = "table"
            /\ props' = ReadCsv(inputFile))
      /\ Written' # Written => (sink = "open" \/ sink' = "open")
      /\ sink' = "closed" => sink \in {"open", "closed"}
      /\ sink' = "unopened" => outFile' = outFile
      /\ (Terminated' /\ exc' \in {"FileNotFoundError", "EmptyDataError"}) =>
           (sink' = "unopened" /\ "output_txt" \notin opened') ]_vars

C9_Witness ==
  /\ Terminated /\ exc = "FileNotFoundError" /\ sink = "unopened"
  /\ outFile = [exists |-> TRUE, content |-> OldContent]

\* C10: once the sink is open the accepted text only grows by appending and
\* the file only grows by appending; for a table with the required columns
\* the accepted text is a prefix of the full document; once an exception
\* is pending nothing more is accepted; and the file a failed run leaves is
\* a proper prefix of the full document.
C10_PrefixOfDocument ==
  [][ /\ sink = "open" =>
           (IsPrefix(Written, Written')
            /\ IsPrefix(outFile.content, outFile.content'))
      /\ (sink' # "unopened" /\ HasRequiredColumns) =>
           IsPrefix(Written', FullDocument(inputFile))
      /\ exc # "none" => Written' = Written
      /\ (Terminated' /\ sink' = "closed" /\ exc' # "none"
          /\ HasRequiredColumns) =>
           (IsPrefix(outFile.content', FullDocument(inputFile))
            /\ outFile.content' # FullDocument(inputFile)) ]_vars

C10_Witness ==
  /\ Terminated /\ exc = "OSError" /\ sink = "closed" /\ HasRequiredColumns
  /\ Len(outFile.content) > 3

====
